---- MODULE Spec2Model ----
(***************************************************************************)
(* Close / save / session-quit coordination of sugar.activity.activity:    *)
(* the process-wide _ActivitySession and the Activity instances that       *)
(* register with it, the journal (datastore) writes they issue and the     *)
(* callbacks the GTK main loop dispatches to them.                         *)
(*                                                                         *)
(* Every handler runs to completion on the single main loop, so a handler  *)
(* is one action.  A handler is written as an operator from a "world"      *)
(* record (the values of the variables plus the log of the running         *)
(* handler) to the world it leaves; nested calls compose as operators.     *)
(***************************************************************************)
EXTENDS Naturals, Sequences, FiniteSets

\* Alerts that may be stacked in one activity window.
MaxAlerts == 1
\* Calls of invite() made on one activity.
MaxInvites == 2
\* Calls of share() made on one activity.
MaxShares == 2
\* Canvases set on one activity, and calls of read_file() followed.
MaxCanvases == 2

\* The Activity instances a process may hold.
Acts == {1, 2}

\* Outcomes of the user hook write_file() called by save().
WriteFileOutcomes == {"notimpl", "file", "nofile", "raise"}
\* Outcomes of the call datastore.write(): it returns or it raises.
DsOutcomes == {"ok", "raise"}
NoOutcome == [wf |-> "notimpl", ds |-> "ok"]
Outcomes == [wf : WriteFileOutcomes, ds : DsOutcomes]

VARIABLES
    act,        \* act[a]: the fields of Activity instance a
    sess,       \* _ActivitySession: _activities, _will_quit
    pending,    \* pending[a]: asynchronous datastore writes of a in flight
    main_quit,  \* gtk.main_quit() has been called
    emit,       \* the session signal being emitted and the handlers left
    ev,         \* log of the handler that ran last
    request     \* history of the session manager's latest quit request

vars == <<act, sess, pending, main_quit, emit, ev, request>>

\* Activity.__init__: the fields before the instance exists / as first set.
NoActivity ==
    [constructed |-> FALSE, active |-> FALSE, active_time |-> FALSE,
     updating_jobject |-> FALSE, closing |-> FALSE, quit_requested |-> FALSE,
     owns_file |-> FALSE, jobject |-> FALSE, object_id |-> FALSE,
     alerts |-> 0, ncomplete |-> 0,
     shared_activity |-> FALSE, joined |-> FALSE, joining |-> FALSE,
     invites_queue |-> <<>>, ninvites |-> 0, sent |-> <<>>,
     share_reqs |-> <<>>, share_cbs |-> 0,
     file_path |-> FALSE, read_file_called |-> FALSE, map_cbs |-> 0,
     nread |-> 0]

NoEv(op, a) ==
    [op |-> op, a |-> a, skip |-> FALSE, veto |-> FALSE, saves |-> 0,
     wrote |-> "none", shown |-> 0, reports |-> <<>>, xsmp |-> <<>>,
     finals |-> 0, save_failed |-> FALSE, raised |-> FALSE,
     arg |-> FALSE, shares |-> <<>>, popped |-> <<>>, invited |-> <<>>,
     left |-> 0, reads |-> 0]

\* The world a handler starts in.
World(op, a) ==
    [act |-> act, sess |-> sess, pending |-> pending, main_quit |-> main_quit,
     ret |-> TRUE, ev |-> NoEv(op, a)]

SetField(w, a, f, v) == [w EXCEPT !.act[a][f] = v]
Raise(w) == [w EXCEPT !.ev.raised = TRUE]
Return(w, v) == [w EXCEPT !.ret = v]

InSeq(x, s) == \E i \in 1..Len(s) : s[i] = x
\* list.remove(x): drops the first occurrence.
RECURSIVE RemoveFirst(_, _)
RemoveFirst(s, x) ==
    IF s = <<>> THEN <<>>
    ELSE IF Head(s) = x THEN Tail(s)
    ELSE <<Head(s)>> \o RemoveFirst(Tail(s), x)

----------------------------------------------------------------------------
\* _ActivitySession

\* register() plus the two connect() calls Activity.__init__ makes on the session.
SessionRegister(w, a) ==
    [w EXCEPT !.sess.activities = Append(@, a),
              !.sess.handlers = Append(@, a)]

\* unregister that quits the main loop whatever is left in the list.
SessionUnregisterAlwaysQuits(w, a) ==
    IF ~InSeq(a, w.sess.activities) THEN Raise(w)
    ELSE [w EXCEPT !.sess.activities = RemoveFirst(@, a),
                   !.main_quit = TRUE]

\* list.remove raises ValueError when the activity is not registered.
SessionUnregister(w, a) ==
    IF ~InSeq(a, w.sess.activities) THEN Raise(w)
    ELSE LET rest == RemoveFirst(w.sess.activities, a)
         IN  [w EXCEPT !.sess.activities = rest,
                       !.main_quit = @ \/ (Len(rest) = 0)]

AllAgreed(s) ==
    \A i \in 1..Len(s.activities) : s.activities[i] \in s.will_quit

SessionWillQuitUnchecked(w, a, will_quit) ==
    LET w1 == [w EXCEPT !.ev.reports = Append(@, will_quit)]
    IN  IF will_quit
        THEN [w1 EXCEPT !.sess.will_quit = @ \cup {a},
                        !.ev.xsmp = Append(@, TRUE)]
        ELSE [w1 EXCEPT !.sess.will_quit = {},
                        !.ev.xsmp = Append(@, FALSE)]

\* will_quit that keeps the agreed instances when one of them refuses.
SessionWillQuitKeepsAgreed(w, a, will_quit) ==
    LET w1 == [w EXCEPT !.ev.reports = Append(@, will_quit)]
    IN  IF will_quit
        THEN LET w2 == [w1 EXCEPT !.sess.will_quit = @ \cup {a}]
             IN  IF AllAgreed(w2.sess)
                 THEN [w2 EXCEPT !.ev.xsmp = Append(@, TRUE)]
                 ELSE w2
        ELSE [w1 EXCEPT !.ev.xsmp = Append(@, FALSE)]

SessionWillQuit(w, a, will_quit) ==
    LET w1 == [w EXCEPT !.ev.reports = Append(@, will_quit)]
    IN  IF will_quit
        THEN LET w2 == [w1 EXCEPT !.sess.will_quit = @ \cup {a}]
             IN  IF AllAgreed(w2.sess)
                 THEN [w2 EXCEPT !.ev.xsmp = Append(@, TRUE)]
                 ELSE w2
        ELSE [w1 EXCEPT !.sess.will_quit = {},
                        !.ev.xsmp = Append(@, FALSE)]

----------------------------------------------------------------------------
\* Activity

\* time.time() - self._active_time raises TypeError when _active_time is None.
UpdateSpentTime(w, a, active) ==
    IF active THEN SetField(w, a, "active_time", TRUE)
    ELSE IF ~w.act[a].active_time THEN Raise(w)
    ELSE SetField(w, a, "active_time", FALSE)

\* save that writes asynchronously whether or not the entry has an id.
SaveWriteAlwaysAsync(w, a, o) ==
    LET w1 == IF w.act[a].active THEN UpdateSpentTime(w, a, FALSE) ELSE w
        w2 == IF o.wf = "raise" THEN Raise(w1)
              ELSE IF o.wf = "file"
                   THEN SetField(SetField(w1, a, "owns_file", TRUE),
                                 a, "file_path", TRUE)
              ELSE w1
    IN  IF w1.ev.raised THEN w1
        ELSE IF w2.ev.raised THEN w2
        ELSE LET w3 == SetField(w2, a, "updating_jobject", TRUE)
             IN  IF o.ds = "raise" THEN Raise(w3)
                 ELSE [w3 EXCEPT !.pending[a] = @ + 1, !.ev.wrote = "async"]

\* The body of Activity.save once its two early returns are passed: spent
\* time, write_file, then the synchronous create or the asynchronous update.
SaveWrite(w, a, o) ==
    LET w1 == IF w.act[a].active THEN UpdateSpentTime(w, a, FALSE) ELSE w
        w2 == IF o.wf = "raise" THEN Raise(w1)
              ELSE IF o.wf = "file"
                   THEN SetField(SetField(w1, a, "owns_file", TRUE),
                                 a, "file_path", TRUE)
              ELSE w1
    IN  IF w1.ev.raised THEN w1
        ELSE IF w2.ev.raised THEN w2
        ELSE IF ~w2.act[a].object_id
        THEN IF o.ds = "raise" THEN Raise(w2)
             ELSE [SetField(w2, a, "object_id", TRUE) EXCEPT !.ev.wrote = "sync"]
        ELSE LET w3 == SetField(w2, a, "updating_jobject", TRUE)
             IN  IF o.ds = "raise" THEN Raise(w3)
                 ELSE [w3 EXCEPT !.pending[a] = @ + 1, !.ev.wrote = "async"]

SaveNoGuard(w, a, o) ==
    LET w0 == [w EXCEPT !.ev.saves = @ + 1]
    IN  IF ~w0.act[a].jobject THEN w0
        ELSE SaveWrite(w0, a, o)

\* Activity.save with the outcomes o of write_file and datastore.write.
Save(w, a, o) ==
    LET w0 == [w EXCEPT !.ev.saves = @ + 1]
    IN  IF ~w0.act[a].jobject THEN w0
        ELSE IF w0.act[a].updating_jobject THEN w0
        ELSE SaveWrite(w0, a, o)

\* copy that saves and keeps the object id.
CopyKeepsId(w, a, o) ==
    IF ~w.act[a].jobject THEN Raise(w)
    ELSE Save(w, a, o)

\* Activity.copy: the debug line reads self._jobject.object_id first.
Copy(w, a, o) ==
    IF ~w.act[a].jobject THEN Raise(w)
    ELSE LET w1 == Save(w, a, o)
         IN  IF w1.ev.raised THEN w1
             ELSE SetField(w1, a, "object_id", FALSE)

SetActive(w, a, active, o) ==
    IF w.act[a].active = active THEN w
    ELSE LET w1 == UpdateSpentTime(SetField(w, a, "active", active), a, active)
         IN  IF w1.ev.raised THEN w1
             ELSE IF ~active /\ w1.act[a].jobject THEN Save(w1, a, o)
             ELSE w1

\* share() without the test for an activity that is already shared.
ShareAgain(w, a, private) ==
    [w EXCEPT !.act[a].share_cbs = @ + 1,
              !.act[a].share_reqs = Append(@, private),
              !.ev.shares = Append(@, private)]

\* Activity.share: one more connection of __share_cb to the presence
\* service's 'activity-shared' signal and one share request.
Share(w, a, private) ==
    IF w.act[a].shared_activity /\ w.act[a].joined THEN Raise(w)
    ELSE [w EXCEPT !.act[a].share_cbs = @ + 1,
                   !.act[a].share_reqs = Append(@, private),
                   !.ev.shares = Append(@, private)]

\* Activity._send_invites: the queue is popped from its end until empty;
\* found holds the invitations whose buddy the presence service knows.
RECURSIVE SendInvites(_, _, _)
SendInvites(w, a, found) ==
    LET q == w.act[a].invites_queue
    IN  IF q = <<>> THEN w
        ELSE LET i == q[Len(q)]
                 w1 == [w EXCEPT !.act[a].invites_queue = SubSeq(q, 1, Len(q) - 1),
                                 !.act[a].sent = Append(@, i),
                                 !.ev.popped = Append(@, i)]
                 w2 == IF i \in found
                       THEN [w1 EXCEPT !.ev.invited = Append(@, i)]
                       ELSE w1
             IN  SendInvites(w2, a, found)

\* Activity.invite: the invitation is the ninvites-th made on the activity.
Invite(w, a, found) ==
    LET i == w.act[a].ninvites + 1
        w1 == [w EXCEPT !.act[a].ninvites = i,
                        !.act[a].invites_queue = Append(@, i)]
    IN  IF ~w1.act[a].shared_activity \/ ~w1.act[a].joined
        THEN Share(w1, a, TRUE)
        ELSE SendInvites(w1, a, found)

\* Activity.__share_cb: the title is read from the journal object (an
\* AttributeError without one) before shared_activity is set; joined is
\* the 'joined' property of the activity the presence service hands over.
ShareCb(w, a, success, joined, found) ==
    IF ~success THEN w
    ELSE IF ~w.act[a].jobject THEN Raise(w)
    ELSE SendInvites([w EXCEPT !.act[a].shared_activity = TRUE,
                               !.act[a].joined = joined],
                     a, found)

\* 'activity-shared' reaches every connection share() has made.
RECURSIVE EmitActivityShared(_, _, _, _, _, _)
EmitActivityShared(w, a, n, success, joined, found) ==
    IF n = 0 THEN w
    ELSE EmitActivityShared(
            ShareCb([w EXCEPT !.ev.raised = FALSE], a, success, joined, found),
            a, n - 1, success, joined, found)

\* Activity.__joined_cb: the answer to the join() of _set_up_sharing; on
\* success __privacy_changed_cb writes to the journal object's metadata.
JoinedCb(w, a, success) ==
    LET w1 == [w EXCEPT !.act[a].joining = FALSE, !.act[a].joined = success]
    IN  IF success /\ ~w1.act[a].jobject THEN Raise(w1) ELSE w1

\* Activity.set_canvas: the new canvas gets a 'map' handler unless read_file
\* was already called.
SetCanvas(w, a) ==
    IF ~w.act[a].read_file_called
    THEN [w EXCEPT !.act[a].map_cbs = @ + 1]
    ELSE w

\* Activity.__canvas_map_cb on a canvas that still has its handler;
\* read_file raises NotImplementedError unless the subclass overrides it, and
\* an exception leaves the flag unset and the handler connected.
CanvasMapCb(w, a, read) ==
    LET reading == /\ w.act[a].jobject /\ w.act[a].file_path
                   /\ ~w.act[a].read_file_called
        w1 == IF reading
              THEN [w EXCEPT !.act[a].nread = @ + 1, !.ev.reads = @ + 1]
              ELSE w
    IN  IF reading /\ read = "raise" THEN Raise(w1)
        ELSE [w1 EXCEPT !.act[a].read_file_called = @ \/ reading,
                        !.act[a].map_cbs = @ - 1]

ShowKeepFailedDialog(w, a) ==
    [w EXCEPT !.act[a].alerts = @ + 1, !.ev.shown = @ + 1]

PrepareCloseMarksFirst(w, a, skip_save, o) ==
    LET w0 == SetField(w, a, "closing", TRUE)
        w1 == IF skip_save THEN w0 ELSE Save(w0, a, o)
    IN  IF w1.ev.raised
        THEN Return(ShowKeepFailedDialog(
                        [w1 EXCEPT !.ev.raised = FALSE, !.ev.save_failed = TRUE],
                        a), FALSE)
        ELSE Return(w1, TRUE)

PrepareClose(w, a, skip_save, o) ==
    LET w1 == IF skip_save THEN w ELSE Save(w, a, o)
    IN  IF w1.ev.raised
        THEN Return(ShowKeepFailedDialog(
                        [w1 EXCEPT !.ev.raised = FALSE, !.ev.save_failed = TRUE],
                        a), FALSE)
        ELSE Return(SetField(w1, a, "closing", TRUE), TRUE)

\* _cleanup_jobject: the journal object is destroyed and forgotten.
CleanupJobject(w, a) ==
    IF w.act[a].jobject
    THEN [w EXCEPT !.act[a].owns_file = FALSE, !.act[a].jobject = FALSE,
                   !.act[a].object_id = FALSE, !.act[a].file_path = FALSE]
    ELSE w

\* _complete_close: the window (and the alerts in it) is destroyed, the
\* shared activity left, the journal object released and the instance
\* unregistered.
CompleteClose(w, a) ==
    LET w1 == [w EXCEPT !.act[a].alerts = 0, !.act[a].ncomplete = @ + 1,
                        !.ev.finals = @ + 1]
        w2 == IF w1.act[a].shared_activity
              THEN [w1 EXCEPT !.ev.left = @ + 1]
              ELSE w1
    IN  SessionUnregister(CleanupJobject(w2, a), a)

CloseIgnoresPending(w, a, skip_save, veto, o) ==
    LET w0 == [w EXCEPT !.ev.skip = skip_save, !.ev.veto = veto]
    IN  IF veto THEN w0
        ELSE LET w1 == IF ~w0.act[a].closing
                       THEN PrepareClose(w0, a, skip_save, o)
                       ELSE Return(w0, TRUE)
             IN  IF ~w1.ret THEN w1 ELSE CompleteClose(w1, a)

CloseIgnoresVeto(w, a, skip_save, veto, o) ==
    LET w0 == [w EXCEPT !.ev.skip = skip_save, !.ev.veto = veto]
        w1 == IF ~w0.act[a].closing
              THEN PrepareClose(w0, a, skip_save, o)
              ELSE Return(w0, TRUE)
    IN  IF ~w1.ret THEN w1
        ELSE IF ~w1.act[a].updating_jobject THEN CompleteClose(w1, a)
        ELSE w1

Close(w, a, skip_save, veto, o) ==
    LET w0 == [w EXCEPT !.ev.skip = skip_save, !.ev.veto = veto]
    IN  IF veto THEN w0
        ELSE LET w1 == IF ~w0.act[a].closing
                       THEN PrepareClose(w0, a, skip_save, o)
                       ELSE Return(w0, TRUE)
             IN  IF ~w1.ret THEN w1
                 ELSE IF ~w1.act[a].updating_jobject THEN CompleteClose(w1, a)
                 ELSE w1

SaveCbNoFinalize(w, a) ==
    LET w1 == SetField(w, a, "updating_jobject", FALSE)
    IN  IF w1.act[a].quit_requested THEN SessionWillQuit(w1, a, TRUE) ELSE w1

SaveCbKeepsFlag(w, a) ==
    IF w.act[a].quit_requested THEN SessionWillQuit(w, a, TRUE)
    ELSE IF w.act[a].closing THEN CompleteClose(w, a)
    ELSE w

\* __save_cb: reply handler of the asynchronous datastore.write.
SaveCb(w, a) ==
    LET w1 == SetField(w, a, "updating_jobject", FALSE)
    IN  IF w1.act[a].quit_requested THEN SessionWillQuit(w1, a, TRUE)
        ELSE IF w1.act[a].closing THEN CompleteClose(w1, a)
        ELSE w1

SaveErrorCbKeepsClosing(w, a) ==
    LET w1 == SetField(w, a, "updating_jobject", FALSE)
        w2 == IF w1.act[a].quit_requested THEN SessionWillQuit(w1, a, FALSE)
              ELSE w1
        w3 == IF w2.act[a].closing THEN ShowKeepFailedDialog(w2, a) ELSE w2
    IN  Raise(w3)

\* __save_error_cb: error handler of the asynchronous datastore.write.
SaveErrorCb(w, a) ==
    LET w1 == SetField(w, a, "updating_jobject", FALSE)
        w2 == IF w1.act[a].quit_requested THEN SessionWillQuit(w1, a, FALSE)
              ELSE w1
        w3 == IF w2.act[a].closing
              THEN SetField(ShowKeepFailedDialog(w2, a), a, "closing", FALSE)
              ELSE w2
    IN  Raise(w3)

KeepFailedDialogResponseCbSavesAgain(w, a, ok, veto) ==
    LET w0 == [w EXCEPT !.act[a].alerts = @ - 1]
    IN  IF ok
        THEN LET w1 == Close(w0, a, FALSE, veto, NoOutcome)
             IN  IF w1.ev.raised THEN w1
                 ELSE IF w1.act[a].quit_requested
                 THEN SessionWillQuit(w1, a, TRUE)
                 ELSE w1
        ELSE IF w0.act[a].quit_requested THEN SessionWillQuit(w0, a, FALSE)
        ELSE w0

\* _keep_failed_dialog_response_cb: ok is RESPONSE_OK ('Stop anyway').
KeepFailedDialogResponseCb(w, a, ok, veto) ==
    LET w0 == [w EXCEPT !.act[a].alerts = @ - 1]
    IN  IF ok
        THEN LET w1 == Close(w0, a, TRUE, veto, NoOutcome)
             IN  IF w1.ev.raised THEN w1
                 ELSE IF w1.act[a].quit_requested
                 THEN SessionWillQuit(w1, a, TRUE)
                 ELSE w1
        ELSE IF w0.act[a].quit_requested THEN SessionWillQuit(w0, a, FALSE)
        ELSE w0

SessionQuitRequestedCbEager(w, a, o) ==
    LET w1 == PrepareClose(SetField(w, a, "quit_requested", TRUE), a, FALSE, o)
    IN  IF w1.ret THEN SessionWillQuit(w1, a, TRUE) ELSE w1

SessionQuitRequestedCb(w, a, o) ==
    LET w1 == PrepareClose(SetField(w, a, "quit_requested", TRUE), a, FALSE, o)
    IN  IF w1.ret /\ ~w1.act[a].updating_jobject
        THEN SessionWillQuit(w1, a, TRUE)
        ELSE w1

\* A 'quit' handler that waits for the pending journal write.
SessionQuitCbWaits(w, a) ==
    IF w.act[a].updating_jobject THEN w ELSE CompleteClose(w, a)

SessionQuitCb(w, a) == CompleteClose(w, a)

\* Activity.__init__ up to the journal object: the fields, the registration
\* with the session, and a journal object that already has its object id
\* (resumed with datastore.get or created by a synchronous write).
Construct(w, a, has_jobject) ==
    SessionRegister(
        [w EXCEPT !.act[a] = [NoActivity EXCEPT !.constructed = TRUE,
                                                !.jobject = has_jobject,
                                                !.object_id = has_jobject]],
        a)

\* Activity.__init__ resuming a journal entry that may have a file, and
\* _set_up_sharing finding the activity on the mesh: mesh is "none", "joined"
\* (already joined) or "joining" (join() is called and answered later).
ConstructFrom(w, a, has_jobject, has_file, mesh) ==
    LET w1 == Construct(w, a, has_jobject)
    IN  [w1 EXCEPT !.act[a].file_path = has_jobject /\ has_file,
                   !.act[a].shared_activity = (mesh # "none"),
                   !.act[a].joined = (mesh = "joined"),
                   !.act[a].joining = (mesh = "joining")]

----------------------------------------------------------------------------
\* The main loop: one action per dispatched handler.

Idle == emit.todo = <<>> /\ ~main_quit
Alive(a) == act[a].constructed /\ act[a].ncomplete = 0

\* The world w is what the variables become.
\* The history of the quit request after a handler with log e: the answer
\* the session manager got last and the activities that called
\* will_quit(True) since 'quit-requested' was emitted.  There is nothing to
\* record before the first recorded request.
Answered(e) ==
    IF request.state = "none" THEN request
    ELSE [state |-> IF e.xsmp = <<>> THEN request.state
                    ELSE IF e.xsmp[Len(e.xsmp)] THEN "true" ELSE "false",
          agreed |-> request.agreed \cup
                        (IF InSeq(TRUE, e.reports) THEN {e.a} ELSE {})]

Commit(w) ==
    /\ \A a \in Acts : /\ w.act[a].alerts <= MaxAlerts
                       /\ w.act[a].ninvites <= MaxInvites
                       /\ w.act[a].share_cbs <= MaxShares
                       /\ w.act[a].map_cbs <= MaxCanvases
                       /\ w.act[a].nread <= MaxCanvases
    /\ act' = w.act
    /\ sess' = w.sess
    /\ pending' = w.pending
    /\ main_quit' = w.main_quit
    /\ ev' = w.ev
    /\ request' = Answered(w.ev)

Init ==
    /\ act = [a \in Acts |-> NoActivity]
    /\ sess = [activities |-> <<>>, will_quit |-> {}, handlers |-> <<>>]
    /\ pending = [a \in Acts |-> 0]
    /\ main_quit = FALSE
    /\ emit = [sig |-> "none", todo |-> <<>>]
    /\ ev = NoEv("init", 0)
    /\ request = [state |-> "none", agreed |-> {}]

\* The activity factory constructs instance a (instances are made in order).
NewActivity(limit) ==
    \E a \in 1..limit, has_jobject \in BOOLEAN :
        /\ Idle /\ ~act[a].constructed
        /\ \A b \in Acts : b < a => act[b].constructed
        /\ Commit(Construct(World("construct", a), a, has_jobject))
        /\ UNCHANGED emit

DoClose(outcomes) ==
    \E a \in Acts, skip_save \in BOOLEAN, veto \in BOOLEAN, o \in outcomes :
        /\ Idle /\ Alive(a)
        /\ Commit(Close(World("close", a), a, skip_save, veto, o))
        /\ UNCHANGED emit

DoSave(outcomes) ==
    \E a \in Acts, o \in outcomes :
        /\ Idle /\ Alive(a)
        /\ Commit(Save(World("save", a), a, o))
        /\ UNCHANGED emit

DoCopy(outcomes) ==
    \E a \in Acts, o \in outcomes :
        /\ Idle /\ Alive(a)
        /\ Commit(Copy(World("copy", a), a, o))
        /\ UNCHANGED emit

DoSetActive(outcomes) ==
    \E a \in Acts, active \in BOOLEAN, o \in outcomes :
        /\ Idle /\ act[a].constructed
        /\ Commit(SetActive([World("set_active", a) EXCEPT !.ev.arg = active],
                            a, active, o))
        /\ UNCHANGED emit

\* The datastore answers an asynchronous write: reply or error, once.
WriteReply ==
    \E a \in Acts :
        /\ Idle /\ pending[a] > 0
        /\ Commit(SaveCb([World("save_cb", a) EXCEPT !.pending[a] = @ - 1], a))
        /\ UNCHANGED emit

WriteError ==
    \E a \in Acts :
        /\ Idle /\ pending[a] > 0
        /\ Commit(SaveErrorCb(
                    [World("save_error_cb", a) EXCEPT !.pending[a] = @ - 1], a))
        /\ UNCHANGED emit

DialogResponse ==
    \E a \in Acts, ok \in BOOLEAN, veto \in BOOLEAN :
        /\ Idle /\ Alive(a) /\ act[a].alerts > 0
        /\ Commit(KeepFailedDialogResponseCb(
                    World(IF ok THEN "dialog_ok" ELSE "dialog_cancel", a),
                    a, ok, veto))
        /\ UNCHANGED emit

\* __sm_quit_requested_cb / __sm_quit_cb: the session emits the signal to
\* the handlers the activities connected, in connection order.
SmQuitRequested ==
    /\ Idle /\ sess.handlers # <<>>
    /\ emit' = [sig |-> "quit-requested", todo |-> sess.handlers]
    /\ ev' = NoEv("sm_quit_requested", 0)
    /\ request' = [state |-> "open", agreed |-> {}]
    /\ UNCHANGED <<act, sess, pending, main_quit>>

\* The same emission in the specifications that keep no history of it.
SmQuitRequestedUnrecorded ==
    /\ Idle /\ sess.handlers # <<>>
    /\ emit' = [sig |-> "quit-requested", todo |-> sess.handlers]
    /\ ev' = NoEv("sm_quit_requested", 0)
    /\ UNCHANGED <<act, sess, pending, main_quit, request>>

SmQuit ==
    /\ Idle /\ sess.handlers # <<>>
    /\ emit' = [sig |-> "quit", todo |-> sess.handlers]
    /\ ev' = NoEv("sm_quit", 0)
    /\ UNCHANGED <<act, sess, pending, main_quit, request>>

HandleQuitRequested(outcomes) ==
    \E o \in outcomes :
        /\ emit.sig = "quit-requested" /\ emit.todo # <<>>
        /\ LET a == Head(emit.todo)
           IN  Commit(SessionQuitRequestedCb(World("quit_requested", a), a, o))
        /\ emit' = [emit EXCEPT !.todo = Tail(@)]

HandleQuit ==
    /\ emit.sig = "quit" /\ emit.todo # <<>>
    /\ LET a == Head(emit.todo)
       IN  Commit(SessionQuitCb(World("quit", a), a))
    /\ emit' = [emit EXCEPT !.todo = Tail(@)]

\* One activity instance in the process, the whole API and every outcome.
Next ==
    \/ NewActivity(1)
    \/ DoClose(Outcomes)
    \/ DoSave(Outcomes)
    \/ DoCopy(Outcomes)
    \/ DoSetActive(Outcomes)
    \/ WriteReply
    \/ WriteError
    \/ DialogResponse
    \/ SmQuitRequested
    \/ SmQuit
    \/ HandleQuitRequested(Outcomes)
    \/ HandleQuit

Spec == Init /\ [][Next]_vars

\* Two activity instances sharing the process-wide session.  The windows
\* stay inactive and write_file leaves no file, which keeps the session
\* negotiation of two instances within reach of the model checker.
SessionOutcomes == {o \in Outcomes : o.wf \in {"notimpl", "raise"}}

NextSession ==
    \/ NewActivity(2)
    \/ DoClose(SessionOutcomes)
    \/ DoSave(SessionOutcomes)
    \/ DoCopy(SessionOutcomes)
    \/ WriteReply
    \/ WriteError
    \/ DialogResponse
    \/ SmQuitRequestedUnrecorded
    \/ SmQuit
    \/ HandleQuitRequested(SessionOutcomes)
    \/ HandleQuit

SpecSession == Init /\ [][NextSession]_vars

----------------------------------------------------------------------------
\* Sharing: one instance, its invitations and its share and join requests.

MeshStates == {"none", "joined", "joining"}

NewSharedActivity ==
    \E has_jobject \in BOOLEAN, mesh \in MeshStates :
        /\ Idle /\ ~act[1].constructed
        /\ mesh = "joined" => has_jobject
        /\ Commit(ConstructFrom(World("construct", 1), 1, has_jobject, FALSE,
                                mesh))
        /\ UNCHANGED emit

DoInvite ==
    \E a \in Acts, found \in SUBSET (1..MaxInvites) :
        /\ Idle /\ Alive(a)
        /\ Commit(Invite(World("invite", a), a, found))
        /\ UNCHANGED emit

DoShare ==
    \E a \in Acts, private \in BOOLEAN :
        /\ Idle /\ Alive(a)
        /\ Commit(Share([World("share", a) EXCEPT !.ev.arg = private],
                        a, private))
        /\ UNCHANGED emit

\* The presence service answers the oldest share request.
ShareReply ==
    \E a \in Acts, success \in BOOLEAN, joined \in BOOLEAN,
       found \in SUBSET (1..MaxInvites) :
        /\ Idle /\ act[a].share_reqs # <<>>
        /\ Commit(EmitActivityShared(
                    [World("share_cb", a) EXCEPT
                        !.act[a].share_reqs = Tail(@), !.ev.arg = success],
                    a, act[a].share_cbs, success, joined, found))
        /\ UNCHANGED emit

JoinReply ==
    \E a \in Acts, success \in BOOLEAN :
        /\ Idle /\ act[a].joining
        /\ Commit(JoinedCb([World("joined_cb", a) EXCEPT !.ev.arg = success],
                           a, success))
        /\ UNCHANGED emit

NextShare ==
    \/ NewSharedActivity
    \/ DoInvite
    \/ DoShare
    \/ ShareReply
    \/ JoinReply
    \/ DoClose({NoOutcome})
    \/ WriteReply
    \/ WriteError

SpecShare == Init /\ [][NextShare]_vars

----------------------------------------------------------------------------
\* Properties of the close / save / quit coordination.

Closed(e) == e.op = "close" /\ ~e.veto
Registered(a) == InSeq(a, sess.activities)

\* C1: a close() that is not vetoed and whose save attempt does not fail
\* finalizes the activity within the call exactly when no asynchronous
\* journal write is pending after the save attempt; with a write pending it
\* returns without finalizing.
C1_CloseFinalizesIffNoWritePending ==
    (Closed(ev) /\ ~ev.save_failed) =>
        (ev.finals = 1 <=> ~act[ev.a].updating_jobject)

C1_Witness ==
    /\ Closed(ev) /\ ~ev.save_failed /\ ev.wrote = "async"
    /\ pending[ev.a] = 1 /\ ev.finals = 0 /\ act[ev.a].closing

\* C2 as stated: whenever an asynchronous write completes successfully while
\* closing is true, the completion callback finalizes the close.
C2_SaveCbFinalizesWheneverClosing ==
    (ev.op = "save_cb" /\ act[ev.a].closing) => ev.finals = 1

\* C2 amended: when an asynchronous write completes successfully while
\* closing is true and quit_requested is false, the completion callback
\* finalizes the close; when quit_requested is true the callback reports
\* will_quit(true) to the session and does not finalize.
C2_SaveCbFinalizesUnlessQuitRequested ==
    (ev.op = "save_cb" /\ act[ev.a].closing) =>
        IF act[ev.a].quit_requested
        THEN ev.finals = 0 /\ ev.reports = <<TRUE>>
        ELSE ev.finals = 1 /\ act[ev.a].ncomplete = 1 /\ ev.reports = <<>>

C2_Witness ==
    /\ ev.op = "save_cb" /\ act[ev.a].closing /\ ~act[ev.a].quit_requested
    /\ ev.finals = 1 /\ ~Registered(ev.a)

\* C3: whenever an asynchronous write completes with failure while closing
\* is true, the recovery prompt is shown, closing is reset to false and the
\* callback does not finalize the activity.
C3_SaveErrorWhileClosing ==
    [][(ev'.op = "save_error_cb" /\ act[ev'.a].closing) =>
          /\ ev'.shown = 1
          /\ act'[ev'.a].alerts = act[ev'.a].alerts + 1
          /\ ~act'[ev'.a].closing
          /\ ev'.finals = 0
          /\ act'[ev'.a].ncomplete = act[ev'.a].ncomplete]_vars

C3_Witness ==
    /\ ev.op = "save_error_cb" /\ ev.shown = 1 /\ ~act[ev.a].closing
    /\ act[ev.a].alerts = 1 /\ Registered(ev.a)

\* C4 as stated: a close() that is not vetoed marks closing true and
\* attempts save(); if the attempt raises, the prompt is shown and the close
\* is aborted, the activity neither finalized nor unregistered.
C4_CloseMarksClosingAndSaves ==
    (Closed(ev) /\ ~ev.skip) =>
        /\ act[ev.a].closing
        /\ ev.saves = 1
        /\ ev.save_failed =>
              ev.shown = 1 /\ ev.finals = 0 /\ Registered(ev.a)

\* C4 amended: a close(skip_save=False) that is not vetoed and finds closing
\* false attempts save() and marks closing true only if the attempt does not
\* fail; if it raises, the prompt is shown and the close is aborted: closing
\* stays false, the activity is not finalized and stays registered.
C4_CloseSavesThenMarksClosing ==
    [][(Closed(ev') /\ ~ev'.skip /\ ~act[ev'.a].closing) =>
          /\ ev'.saves = 1
          /\ act'[ev'.a].closing <=> ~ev'.save_failed
          /\ ev'.save_failed =>
                /\ ev'.shown = 1
                /\ ev'.finals = 0
                /\ act'[ev'.a].ncomplete = 0
                /\ InSeq(ev'.a, sess'.activities)]_vars

C4_Witness ==
    /\ Closed(ev) /\ ~ev.skip /\ ev.saves = 1 /\ ev.save_failed
    /\ ev.shown = 1 /\ ~act[ev.a].closing /\ Registered(ev.a)

\* C5: a close() vetoed by can_close() has no effect: no field of the
\* activity changes, no save is attempted, nothing is reported to the
\* session and the activity is not finalized.
C5_VetoedCloseChangesNothing ==
    [][(ev'.op = "close" /\ ev'.veto) =>
          /\ act' = act /\ sess' = sess
          /\ pending' = pending /\ main_quit' = main_quit
          /\ ev'.saves = 0 /\ ev'.reports = <<>> /\ ev'.xsmp = <<>>
          /\ ev'.finals = 0 /\ ev'.shown = 0]_vars

C5_Witness ==
    /\ ev.op = "close" /\ ev.veto /\ ~ev.skip
    /\ act[ev.a].jobject /\ ~act[ev.a].closing /\ ~act[ev.a].updating_jobject

\* C6: the quit-request handler sets quit_requested, runs the save path of
\* close(), and reports will_quit(true) in the handler only if the save
\* attempt did not fail and no asynchronous write is pending afterwards;
\* otherwise it reports nothing.
C6_QuitRequestedReportsOnlyWhenSaved ==
    ev.op = "quit_requested" =>
        /\ act[ev.a].quit_requested
        /\ ev.saves = 1
        /\ ev.reports =
              IF ~ev.save_failed /\ ~act[ev.a].updating_jobject
              THEN <<TRUE>> ELSE <<>>

C6_Witness ==
    /\ ev.op = "quit_requested" /\ ev.wrote = "async"
    /\ pending[ev.a] = 1 /\ ev.reports = <<>>

\* C7: every completion of an asynchronous write, reply or error, clears
\* updating_jobject and, if quit_requested is true, reports will_quit(true)
\* on success and will_quit(false) on failure.
C7_CompletionClearsFlagAndReports ==
    ev.op \in {"save_cb", "save_error_cb"} =>
        /\ ~act[ev.a].updating_jobject
        /\ act[ev.a].quit_requested => ev.reports = <<ev.op = "save_cb">>

C7_Witness ==
    /\ ev.op = "save_error_cb" /\ act[ev.a].quit_requested
    /\ ev.reports = <<FALSE>> /\ ev.xsmp = <<FALSE>>

\* C8: at most one asynchronous write of an activity is outstanding at any
\* moment, and a save() entered while updating_jobject is true issues no
\* write and changes no state.
C8_SavesNeverOverlap ==
    /\ [](\A a \in Acts : pending[a] <= 1)
    /\ [][(ev'.op = "save" /\ act[ev'.a].updating_jobject) =>
             /\ act' = act /\ pending' = pending /\ sess' = sess
             /\ ev'.wrote = "none"]_vars

C8_Witness ==
    /\ ev.op = "save" /\ act[ev.a].updating_jobject /\ pending[ev.a] = 1
    /\ ev.saves = 1 /\ ev.wrote = "none"

\* C9: the session tells the session manager will_quit(true) only when
\* every registered activity is in the list of instances that agreed.
C9_WillQuitTrueOnlyWhenAllAgreed ==
    InSeq(TRUE, ev.xsmp) =>
        \A i \in 1..Len(sess.activities) :
            sess.activities[i] \in sess.will_quit

C9_Witness ==
    /\ InSeq(TRUE, ev.xsmp) /\ Len(sess.activities) = 2
    /\ ev.op = "save_cb"

\* C10: 'Stop anyway' calls close with skip_save, so no save is attempted
\* (the close finalizes unless can_close vetoes it or a write is pending),
\* and reports will_quit(true) if quit_requested; 'Don't stop' leaves the
\* activity unfinalized and reports will_quit(false) if quit_requested.
C10_KeepFailedDialogResponse ==
    /\ ev.op = "dialog_ok" =>
          /\ ev.skip /\ ev.saves = 0
          /\ ev.finals = 1 <=> (~ev.veto /\ ~act[ev.a].updating_jobject)
          /\ ev.reports = IF act[ev.a].quit_requested THEN <<TRUE>> ELSE <<>>
    /\ ev.op = "dialog_cancel" =>
          /\ ev.finals = 0 /\ act[ev.a].ncomplete = 0 /\ Registered(ev.a)
          /\ ev.reports = IF act[ev.a].quit_requested THEN <<FALSE>> ELSE <<>>

C10_Witness ==
    /\ ev.op = "dialog_ok" /\ act[ev.a].quit_requested
    /\ ev.reports = <<TRUE>> /\ ev.finals = 1 /\ ~Registered(ev.a)

\* C11: every close(skip_save=False) that is not vetoed and is made while
\* no earlier close() awaits its asynchronous write calls save() before the
\* activity is finalized (a close made while one is awaited does not
\* finalize within the call).
C11_CloseSavesBeforeFinalizing ==
    (Closed(ev) /\ ~ev.skip /\ ev.finals = 1) => ev.saves = 1

Tickets(q) == {q[k] : k \in 1..Len(q)}
NoDuplicates(q) == \A j, k \in 1..Len(q) : q[j] = q[k] => j = k

\* invite() queues the invitation and either requests a private share (not
\* yet shared and joined) or dispatches the whole queue at once.
InviteQueuesThenSharesOrSends ==
    [][ev'.op = "invite" =>
          LET a == ev'.a
              q == Append(act[a].invites_queue, act'[a].ninvites)
          IN  IF act[a].shared_activity /\ act[a].joined
              THEN /\ act'[a].invites_queue = <<>>
                   /\ Tickets(ev'.popped) = Tickets(q)
                   /\ ev'.shares = <<>>
              ELSE /\ act'[a].invites_queue = q
                   /\ ev'.popped = <<>>
                   /\ ev'.shares = <<TRUE>>]_vars

\* Every invitation made is either still queued or was dispatched, once,
\* and a handler dispatches only while shared_activity is set.
InvitesDispatchedOnceWhileShared ==
    \A a \in Acts :
        /\ NoDuplicates(act[a].sent \o act[a].invites_queue)
        /\ Tickets(act[a].sent \o act[a].invites_queue) = 1..act[a].ninvites
        /\ (ev.a = a /\ ev.popped # <<>>) =>
              act[a].shared_activity /\ ev.op \in {"invite", "share_cb"}

\* The share-success callback leaves the invite queue empty.
ShareSuccessEmptiesQueue ==
    (ev.op = "share_cb" /\ ev.arg) => act[ev.a].invites_queue = <<>>

\* C12: invite() queues the invitation and requests a private share unless
\* the activity is shared and joined; every queued invitation is dispatched
\* once and only while shared_activity is set, at once by invite() when
\* shared and joined, otherwise by the share-success callback, after which
\* the invite queue is empty.
C12_InvitesDispatchedOnce ==
    /\ InviteQueuesThenSharesOrSends
    /\ []InvitesDispatchedOnceWhileShared
    /\ []ShareSuccessEmptiesQueue

\* C13: share() on an activity that is already shared and joined raises and
\* sends no share request to the presence service; in every other state it
\* sends exactly one share request, carrying the requested privacy.
C13_ShareRaisesOrRequestsOnce ==
    [][ev'.op = "share" =>
        LET a == ev'.a
        IN  IF act[a].shared_activity /\ act[a].joined
            THEN /\ ev'.raised
                 /\ ev'.shares = <<>>
                 /\ act'[a].share_reqs = act[a].share_reqs
            ELSE /\ ~ev'.raised
                 /\ ev'.shares = <<ev'.arg>>
                 /\ act'[a].share_reqs = Append(act[a].share_reqs, ev'.arg)
      ]_vars

C13_Witness ==
    /\ ev.op = "share" /\ ev.raised /\ ev.shares = <<>>
    /\ act[ev.a].shared_activity /\ act[ev.a].joined

----------------------------------------------------------------------------
\* Two instances, each possibly found on the mesh at construction, under the
\* session manager's quit negotiation.

NewActivityOnMesh ==
    \E a \in Acts, has_jobject \in BOOLEAN, mesh \in MeshStates :
        /\ Idle /\ ~act[a].constructed
        /\ \A b \in Acts : b < a => act[b].constructed
        /\ mesh = "joined" => has_jobject
        /\ Commit(ConstructFrom(World("construct", a), a, has_jobject, FALSE,
                                mesh))
        /\ UNCHANGED emit

NextQuit ==
    \/ NewActivityOnMesh
    \/ DoClose({NoOutcome})
    \/ DoSave({NoOutcome})
    \/ WriteReply
    \/ WriteError
    \/ DialogResponse
    \/ SmQuitRequestedUnrecorded
    \/ SmQuit
    \/ HandleQuitRequested({NoOutcome})
    \/ HandleQuit

SpecQuit == Init /\ [][NextQuit]_vars

\* C14: when the session emits 'quit', the handler of every registered
\* activity finalizes it (window destroyed, shared activity left, journal
\* object released, instance unregistered) whatever closing, quit_requested
\* and updating_jobject are, also while an asynchronous write is pending;
\* once the emission is over no activity is registered.
C14_QuitFinalizesEveryRegistered ==
    [][/\ (ev'.op = "quit" /\ InSeq(ev'.a, sess.activities)) =>
            LET a == ev'.a
            IN  /\ ev'.finals = 1 /\ ~ev'.raised
                /\ act'[a].ncomplete = act[a].ncomplete + 1
                /\ ev'.left = IF act[a].shared_activity THEN 1 ELSE 0
                /\ ~act'[a].jobject
                /\ ~InSeq(a, sess'.activities)
       /\ (emit'.sig = "quit" /\ emit'.todo = <<>>) => sess'.activities = <<>>
      ]_vars

C14_Witness ==
    /\ ev.op = "quit" /\ ev.finals = 1 /\ ev.left = 1
    /\ pending[ev.a] > 0 /\ act[ev.a].updating_jobject
    /\ act[ev.a].closing /\ act[ev.a].quit_requested
    /\ sess.activities = <<>> /\ \A a \in Acts : act[a].ncomplete = 1

\* C15: one will_quit(false) from any activity makes the session report
\* will_quit(false) to the session manager and empties the list of agreed
\* instances; the list grows only by the activity that reports
\* will_quit(true), and will_quit(true) reaches the session manager only when
\* every registered activity is in the list, so every one of them has agreed
\* again since the refusal.
C15_RefusalResetsAgreement ==
    [][/\ ev'.reports = <<FALSE>> =>
            ev'.xsmp = <<FALSE>> /\ sess'.will_quit = {}
       /\ sess'.will_quit \subseteq
            (sess.will_quit \cup
                (IF ev'.reports = <<TRUE>> THEN {ev'.a} ELSE {}))
       /\ InSeq(TRUE, ev'.xsmp) =>
            /\ ev'.reports = <<TRUE>>
            /\ \A i \in 1..Len(sess'.activities) :
                 sess'.activities[i] \in sess.will_quit \cup {ev'.a}
      ]_vars

C15_Witness ==
    /\ ev.reports = <<FALSE>> /\ ev.xsmp = <<FALSE>>
    /\ Len(sess.activities) = 2 /\ sess.will_quit = {}
    /\ \E b \in Acts : /\ b # ev.a /\ act[b].quit_requested
                       /\ ~act[b].updating_jobject /\ act[b].alerts = 0

\* C16: the main loop is told to quit exactly in the step in which an
\* unregister() leaves the session's list of registered activities empty;
\* an unregister() that leaves an activity registered never quits it.
C16_MainQuitIffLastUnregistered ==
    [][/\ (main_quit' /\ ~main_quit) <=>
            (sess.activities # <<>> /\ sess'.activities = <<>>)
       /\ (Len(sess'.activities) < Len(sess.activities)
            /\ sess'.activities # <<>>) => ~main_quit'
      ]_vars

C16_Witness ==
    /\ ev.finals = 1 /\ ~ev.raised
    /\ Len(sess.activities) = 1 /\ ~Registered(ev.a)
    /\ ~main_quit

\* C17: set_active(v) with v equal to the current value of active changes
\* nothing and attempts no save; a change of active from true to false
\* attempts a save() if and only if a journal object exists; a change from
\* false to true attempts no save.
C17_SetActiveSavesOnDeactivation ==
    [][ev'.op = "set_active" =>
        LET a == ev'.a
        IN  /\ ev'.arg = act[a].active =>
                 act'[a] = act[a] /\ ev'.saves = 0
            /\ (act[a].active /\ ~ev'.arg) =>
                 (ev'.saves = 1 <=> act[a].jobject)
            /\ (~act[a].active /\ ev'.arg) => ev'.saves = 0
      ]_vars

\* The flag updating_jobject is cleared by nothing but the completion
\* callbacks of the asynchronous write.
OnlyCallbacksClearFlag ==
    \A a \in Acts :
        (act[a].updating_jobject /\ ~act'[a].updating_jobject) =>
            (ev'.a = a /\ ev'.op \in {"save_cb", "save_error_cb"})

\* C18 as stated: save() with no journal object does nothing; with a journal
\* object without an object id it writes synchronously and leaves
\* updating_jobject false; with a journal object with an object id it sets
\* updating_jobject and issues one asynchronous write, and only the
\* completion callback clears the flag.
C18_SaveBranches ==
    [][/\ ev'.op = "save" =>
            LET a == ev'.a
            IN  /\ ~act[a].jobject =>
                     (act'[a] = act[a] /\ ev'.wrote = "none"
                        /\ pending' = pending)
                /\ (act[a].jobject /\ ~act[a].object_id) =>
                     (ev'.wrote = "sync" /\ ~act'[a].updating_jobject
                        /\ pending' = pending)
                /\ (act[a].jobject /\ act[a].object_id) =>
                     (ev'.wrote = "async" /\ act'[a].updating_jobject
                        /\ pending'[a] = pending[a] + 1)
       /\ OnlyCallbacksClearFlag
      ]_vars

\* C18 amended: save() with no journal object, or while updating_jobject is
\* true, does nothing; otherwise a save() that does not raise writes
\* synchronously and leaves the flag false when the entry has no object id,
\* and sets the flag and issues one asynchronous write when it has one; a
\* save() that raises issues no write; only the completion callbacks clear
\* the flag.
C18_SaveBranchesUnlessBlockedOrRaised ==
    [][/\ ev'.op = "save" =>
            LET a == ev'.a
            IN  /\ (~act[a].jobject \/ act[a].updating_jobject) =>
                     (act'[a] = act[a] /\ ev'.wrote = "none"
                        /\ pending' = pending /\ ~ev'.raised)
                /\ (act[a].jobject /\ ~act[a].updating_jobject
                        /\ ~ev'.raised /\ ~act[a].object_id) =>
                     (ev'.wrote = "sync" /\ ~act'[a].updating_jobject
                        /\ pending' = pending)
                /\ (act[a].jobject /\ ~act[a].updating_jobject
                        /\ ~ev'.raised /\ act[a].object_id) =>
                     (ev'.wrote = "async" /\ act'[a].updating_jobject
                        /\ pending'[a] = pending[a] + 1)
                /\ ev'.raised => (ev'.wrote = "none" /\ pending' = pending)
       /\ OnlyCallbacksClearFlag
      ]_vars

C18_Witness ==
    /\ ev.op = "save" /\ ev.wrote = "async" /\ ~ev.raised
    /\ act[ev.a].updating_jobject /\ pending[ev.a] = 1

\* A save() entered with a journal object that has no object id, with no
\* write pending, and that does not raise, is a synchronous create: it gives
\* the entry an id and does not set updating_jobject.
SaveAfterCopyCreates ==
    (ev'.op = "save" /\ act[ev'.a].jobject /\ ~act[ev'.a].object_id
        /\ ~act[ev'.a].updating_jobject /\ ~ev'.raised) =>
            /\ ev'.wrote = "sync" /\ act'[ev'.a].object_id
            /\ ~act'[ev'.a].updating_jobject /\ pending' = pending

\* C19 as stated: copy() saves and then clears the journal object's id, so
\* that the next save() not blocked by a pending write is a synchronous
\* create that does not set updating_jobject.
C19_CopyClearsObjectId ==
    [][/\ ev'.op = "copy" =>
            (ev'.saves = 1 /\ act'[ev'.a].jobject /\ ~act'[ev'.a].object_id)
       /\ SaveAfterCopyCreates
      ]_vars

\* C19 amended: copy() on an activity with a journal object calls save()
\* and clears the object id if save() did not raise; without a journal
\* object copy() raises before saving, and when save() raises the id is
\* left as it was.  The next save() not blocked by a pending write that does
\* not raise is a synchronous create that does not set updating_jobject.
C19_CopyClearsObjectIdUnlessRaised ==
    [][/\ ev'.op = "copy" =>
            LET a == ev'.a
            IN  IF ~act[a].jobject
                THEN ev'.raised /\ ev'.saves = 0 /\ act'[a] = act[a]
                ELSE /\ ev'.saves = 1
                     /\ IF ev'.raised
                        THEN act'[a].object_id = act[a].object_id
                        ELSE ~act'[a].object_id
       /\ SaveAfterCopyCreates
      ]_vars

C19_Witness ==
    /\ ev.op = "save" /\ ev.wrote = "sync" /\ ~ev.raised
    /\ act[ev.a].object_id /\ ~act[ev.a].updating_jobject
    /\ pending[ev.a] = 0

----------------------------------------------------------------------------
\* One instance resumed from the journal, its canvases and their map events.

ReadOutcomes == {"ok", "raise"}

NewResumedActivity ==
    \E has_jobject \in BOOLEAN, has_file \in BOOLEAN :
        /\ Idle /\ ~act[1].constructed
        /\ Commit(ConstructFrom(World("construct", 1), 1, has_jobject,
                                has_file, "none"))
        /\ UNCHANGED emit

DoSetCanvas ==
    \E a \in Acts :
        /\ Idle /\ Alive(a)
        /\ Commit(SetCanvas(World("set_canvas", a), a))
        /\ UNCHANGED emit

\* A canvas that has the handler connected is mapped.
CanvasMapped ==
    \E a \in Acts, read \in ReadOutcomes :
        /\ Idle /\ act[a].map_cbs > 0
        /\ Commit(CanvasMapCb(World("canvas_map", a), a, read))
        /\ UNCHANGED emit

NextCanvas ==
    \/ NewResumedActivity
    \/ DoSetCanvas
    \/ CanvasMapped
    \/ DoSave(Outcomes)
    \/ DoCopy(Outcomes)
    \/ DoClose({NoOutcome})
    \/ WriteReply
    \/ WriteError

SpecCanvas == Init /\ [][NextCanvas]_vars

\* read_file is called only from the map handler, with a journal object
\* that has a file path.
ReadFileOnlyWithFilePath ==
    [][ev'.reads > 0 =>
        /\ ev'.op = "canvas_map" /\ ev'.reads = 1
        /\ act[ev'.a].jobject /\ act[ev'.a].file_path
        /\ ~act[ev'.a].read_file_called
      ]_vars

\* Once read_file has returned it is never called again.
ReadFileOnceItReturned ==
    [][\A a \in Acts :
        act[a].read_file_called =>
            act'[a].nread = act[a].nread /\ act'[a].read_file_called
      ]_vars

\* C20: read_file is invoked at most once per activity instance over any
\* sequence of set_canvas() calls and canvas map events, and only while a
\* journal object with a non-empty file path exists when the canvas is
\* mapped.
C20_ReadFileAtMostOnce ==
    /\ [](\A a \in Acts : act[a].nread <= 1)
    /\ ReadFileOnlyWithFilePath

\* C21: an activity instance is finalized at most once: over any
\* interleaving of close() calls, quit requests, 'quit' signals, write
\* completions and prompt responses _complete_close runs at most one time per
\* instance, so unregister() is never called for an activity that is not
\* registered.
C21_FinalizedAtMostOnce ==
    [][/\ \A a \in Acts : act'[a].ncomplete <= 1
       /\ ev'.finals > 0 => InSeq(ev'.a, sess.activities)
      ]_vars

----------------------------------------------------------------------------
\* The single-instance specification with fairness: a signal emission runs
\* every connected handler, and the datastore answers every asynchronous
\* write (reply_handler or error_handler) while the main loop runs.

SpecFair ==
    /\ Spec
    /\ WF_vars(HandleQuitRequested(Outcomes))
    /\ WF_vars(HandleQuit)
    /\ WF_vars(WriteReply \/ WriteError)

\* close() has just returned without finalizing because it waits for the
\* asynchronous write of a.
CloseWaiting(a) ==
    /\ Closed(ev) /\ ev.a = a /\ ev.finals = 0
    /\ act[a].closing /\ act[a].updating_jobject /\ pending[a] > 0

\* C22: a close in progress is never lost: when a non-vetoed close() waits
\* for an asynchronous write, then unless the write fails the activity is
\* eventually finalized, also when a quit request arrives in between and the
\* session never emits 'quit'.
C22_CloseInProgressNeverLost ==
    \A a \in Acts :
        CloseWaiting(a) ~>
            (act[a].ncomplete > 0 \/ (ev.op = "save_error_cb" /\ ev.a = a))

\* C23: in every reachable state, if active is true then the activation
\* timestamp used for the spent-time accounting is set, so that a later
\* set_active(False) can compute the elapsed time; in particular after
\* save(), copy() or close() run while the activity is active.
C23_ActiveHasTimestamp ==
    \A a \in Acts : act[a].active => act[a].active_time

\* C24: in every reachable state updating_jobject is true if and only if an
\* asynchronous write has been issued and its completion callback (success
\* or error) has not run yet; the flag is never left true with no write in
\* flight, also when the write call itself fails synchronously.
C24_FlagIffWriteInFlight ==
    \A a \in Acts : act[a].updating_jobject <=> pending[a] > 0

----------------------------------------------------------------------------
\* Two instances under repeated quit requests, with the history of each
\* request recorded.

NextAgree ==
    \/ NewActivity(2)
    \/ DoClose({NoOutcome})
    \/ WriteReply
    \/ WriteError
    \/ DialogResponse
    \/ SmQuitRequested
    \/ HandleQuitRequested({NoOutcome})

SpecAgree == Init /\ [][NextAgree]_vars

\* C25: for each quit request the session manager is told will_quit(true)
\* only after every registered activity has reported will_quit(true) in
\* response to that same request; agreements recorded during an earlier
\* request are not counted.
C25_AgreementsOfThisRequestOnly ==
    InSeq(TRUE, ev.xsmp) =>
        \A i \in 1..Len(sess.activities) :
            sess.activities[i] \in request.agreed

\* C26: an activity reports will_quit to the session only in response to an
\* outstanding quit request: once the session has answered a quit request
\* with will_quit(false), and until the next quit request, the completion of
\* the write of an ordinary save (save(), copy() or set_active(False) called
\* after the answer) makes no report to the session.
C26_NoReportAfterRefusal ==
    [][(/\ request.state = "false"
        /\ ev.op \in {"save", "copy", "set_active"} /\ ev.wrote = "async"
        /\ ev'.op \in {"save_cb", "save_error_cb"} /\ ev'.a = ev.a)
            => ev'.reports = <<>>
      ]_vars

\* The handler with log e ended in a failed save path: the synchronous save
\* of a close() or of a quit request raised, or an asynchronous write failed.
SavePathFailed(e) ==
    \/ (e.op \in {"close", "quit_requested"} /\ e.save_failed)
    \/ e.op = "save_error_cb"

\* C27: closing is true only after a save path that did not fail: after a
\* close() or quit request whose synchronous save raised, and after an
\* asynchronous write failure, closing is false, so the next non-vetoed
\* close(skip_save=False) attempts save() again instead of finalizing
\* without saving.
C27_ClosingFalseAfterFailedSave ==
    [][/\ SavePathFailed(ev') => ~act'[ev'.a].closing
       /\ (SavePathFailed(ev) /\ Closed(ev') /\ ev'.a = ev.a /\ ~ev'.skip)
            => ev'.saves = 1
      ]_vars

====
